---- MODULE Spec2Model ----
(***************************************************************************)
(* A model of SubmarineSystem (src/submarine_system.py): the registry of   *)
(* submarines, movement by reports with the bounded movement log, the      *)
(* collision logger and the friendly-fire guard of order_torpedo.          *)
(*                                                                         *)
(* Python strings are modelled as sequences of one-character strings, so   *)
(* that the regular expression, str.split, str.isdigit and int() are       *)
(* modelled by what they do.                                               *)
(***************************************************************************)
EXTENDS Integers, Sequences, FiniteSets, TLC

VARIABLES
    submarines,            \* SubmarineSystem._submarines, in dict insertion order
    occupied_positions,    \* keys of SubmarineSystem._occupied_positions
    collided_submarines,   \* SubmarineSystem._collided_submarines: the list holds the
                           \* submarine objects, here their serial numbers
    MovementReports,       \* the files MovementReports/<serial>.txt
    Sensordata,            \* the directory Sensordata and its files <serial>.txt
    Secrets,               \* the files Secrets/SecretKEY.txt and Secrets/ActivationCodes.txt
    today,                 \* str(date.today())
    logged,                \* history: every record the current entity of a serial ever logged
    last                   \* the last call made and what it returned or raised

\* What the program reads and never writes
env == <<MovementReports, Sensordata, Secrets, today>>

vars == <<submarines, occupied_positions, collided_submarines, env, logged, last>>

-----------------------------------------------------------------------------
(* Bounds of the exploration *)

MaxMoveCalls == 2     \* completed move_submarine_by_reports calls explored
MaxSameCellCalls == 3 \* the same, in SpecSameCell
MaxSteps == 3         \* single move() steps explored in SpecMove
MaxDist == 2          \* distances explored in SpecMove
LongReportLen == 51   \* records of a long movement report
MaxPartialRecords == 2 \* records a submarine may have logged when a report fails midway
MaxSensorLines == 4   \* lines of a sensor data file
MaxRankedMoves == 3   \* completed move_submarine_by_reports calls in SpecRanking

(* Program constants *)

max_move_logs == 50   \* _Submarine.max_move_logs
SerialDigits == 8     \* \d{8}
SuffixDigits == 2     \* \d{2}

-----------------------------------------------------------------------------
(* Strings *)

Rep(c, n) == [i \in 1..n |-> c]

AsciiDigits == {"0", "1", "2", "3", "4", "5", "6", "7", "8", "9"}

\* "sup2" stands for the one character SUPERSCRIPT TWO: str.isdigit() accepts
\* it, int() does not.
IsDigitChars == AsciiDigits \cup {"sup2"}

WhiteSpace == {" ", "\t", "\n"}

DigitValue(c) ==
    CASE c = "0" -> 0 [] c = "1" -> 1 [] c = "2" -> 2 [] c = "3" -> 3
      [] c = "4" -> 4 [] c = "5" -> 5 [] c = "6" -> 6 [] c = "7" -> 7
      [] c = "8" -> 8 [] c = "9" -> 9

\* str.split() with no argument: the maximal runs of non-whitespace
RECURSIVE SplitFrom(_, _, _)
SplitFrom(s, i, cur) ==
    IF i > Len(s)
    THEN IF cur = <<>> THEN <<>> ELSE <<cur>>
    ELSE IF s[i] \in WhiteSpace
         THEN IF cur = <<>>
              THEN SplitFrom(s, i + 1, <<>>)
              ELSE <<cur>> \o SplitFrom(s, i + 1, <<>>)
         ELSE SplitFrom(s, i + 1, Append(cur, s[i]))

split(s) == SplitFrom(s, 1, <<>>)

\* str.isdigit(): non-empty and every character a digit character
isdigit(s) == Len(s) > 0 /\ \A i \in 1..Len(s) : s[i] \in IsDigitChars

\* int(s) succeeds on the strings of decimal digits
IntOk(s) == Len(s) > 0 /\ \A i \in 1..Len(s) : s[i] \in AsciiDigits

RECURSIVE IntUpTo(_, _)
IntUpTo(s, n) == IF n = 0 THEN 0 ELSE 10 * IntUpTo(s, n - 1) + DigitValue(s[n])

int(s) == IntUpTo(s, Len(s))

\* serial_number_pattern.match(s) for the pattern ^\d{8}-\d{2}$ : re.match
\* anchors at the start, and $ matches at the end of the string and also just
\* before a newline that ends the string.
serial_number_pattern_match(s) ==
    /\ Len(s) >= SerialDigits + 1 + SuffixDigits
    /\ \A i \in 1..SerialDigits : s[i] \in AsciiDigits
    /\ s[SerialDigits + 1] = "-"
    /\ \A i \in (SerialDigits + 2)..(SerialDigits + 1 + SuffixDigits) : s[i] \in AsciiDigits
    /\ \/ Len(s) = SerialDigits + 1 + SuffixDigits
       \/ /\ Len(s) = SerialDigits + 2 + SuffixDigits
          /\ s[Len(s)] = "\n"

-----------------------------------------------------------------------------
(* The inputs explored *)

SN_A == Rep("0", 8) \o <<"-", "0", "0">>
SN_B == Rep("0", 8) \o <<"-", "0", "1">>
SN_C == Rep("0", 8) \o <<"-", "0", "2">>
SN_A_newline == SN_A \o <<"\n">>
SN_hello == <<"h", "e", "l", "l", "o">>
SN_123 == <<"1", "2", "3">>
SN_7digits == Rep("0", 7) \o <<"-", "0", "0">>
SN_3suffix == Rep("0", 8) \o <<"-", "0", "0", "0">>
SN_nohyphen == Rep("0", 11)

SerialInputs ==
    {SN_A, SN_B, SN_C, SN_A_newline, SN_123, SN_hello, SN_7digits, SN_3suffix,
     SN_nohyphen}

Up == <<"u", "p">>
Down == <<"d", "o", "w", "n">>
Forward == <<"f", "o", "r", "w", "a", "r", "d">>
Onwards == <<"o", "n", "w", "a", "r", "d", "s">>

DirectionInputs == {Up, Down, Forward, Onwards}

-----------------------------------------------------------------------------
(* Movement report files *)

NoFile == [exists |-> FALSE, lines |-> <<>>]

File(lines) == [exists |-> TRUE, lines |-> lines]

L_up1 == <<"u", "p", " ", "1", "\n">>
L_up2 == <<"u", "p", " ", "2", "\n">>
L_down1 == <<"d", "o", "w", "n", " ", "1", "\n">>
L_forward1 == <<"f", "o", "r", "w", "a", "r", "d", " ", "1", "\n">>
L_onwards3 == <<"o", "n", "w", "a", "r", "d", "s", " ", "3", "\n">>
L_oneToken == <<"u", "p", "\n">>
L_negative == <<"u", "p", " ", "-", "1", "\n">>
L_threeTokens == <<"u", "p", " ", "1", " ", "1", "\n">>
L_upSup2 == <<"u", "p", " ", "sup2", "\n">>
L_down2 == <<"d", "o", "w", "n", " ", "2", "\n">>

\* The short reports: SN_A goes (0,0) -> (1,0) -> (1,1); SN_B goes (0,0) ->
\* (0,1) -> (2,1) -> (1,1) and has records that are skipped; SN_C logs a move
\* in an unknown direction and ends on (1,0), a cell SN_A only passes.
\* SN_A_newline has no report file.
ShortReports ==
    [sn \in SerialInputs |->
        CASE sn = SN_A -> File(<<L_up1, L_forward1>>)
          [] sn = SN_B -> File(<<L_forward1, L_oneToken, L_up2, L_negative, L_down1,
                                 L_threeTokens>>)
          [] sn = SN_C -> File(<<L_onwards3, L_up1>>)
          [] OTHER -> NoFile]


\* Reports that bring SN_A, SN_B and SN_C to the same cell (1,0); SN_B passes
\* (2,0), the cell SN_A ends its second call on.
SameCellReports ==
    [sn \in SerialInputs |->
        CASE sn = SN_A -> File(<<L_up1>>)
          [] sn = SN_B -> File(<<L_up2, L_down1>>)
          [] sn = SN_C -> File(<<L_onwards3, L_up1>>)
          [] OTHER -> NoFile]

\* Reports with a record whose distance is SUPERSCRIPT TWO (SN_A), with records
\* of other invalid shapes (SN_B), and a report that is missing (SN_C)
FaultyReports ==
    [sn \in SerialInputs |->
        CASE sn = SN_A -> File(<<L_up1, L_upSup2, L_forward1>>)
          [] sn = SN_B -> File(<<L_forward1, L_oneToken, L_up2, L_negative, L_down1,
                                 L_threeTokens>>)
          [] OTHER -> NoFile]

\* Reports that spread the fleet: SN_A goes up by 1 and SN_B forward by 1, to
\* the same distance from the base; SN_C goes down by 2, below the base and
\* furthest from it
RankingReports ==
    [sn \in SerialInputs |->
        CASE sn = SN_A -> File(<<L_up1>>)
          [] sn = SN_B -> File(<<L_forward1>>)
          [] sn = SN_C -> File(<<L_down2>>)
          [] OTHER -> NoFile]

\* The long reports: SN_A logs one record more than the movement log holds in
\* one call, SN_B as many as it holds
LongReports ==
    [sn \in SerialInputs |->
        CASE sn = SN_A -> File([i \in 1..LongReportLen |->
                                    IF i % 3 = 0 THEN L_forward1 ELSE L_up1])
          [] sn = SN_B -> File([i \in 1..(LongReportLen - 1) |->
                                    IF i % 2 = 0 THEN L_up2 ELSE L_down1])
          [] sn = SN_C -> File(<<L_up1>>)
          [] OTHER -> NoFile]

\* No directory Sensordata
NoSensordata == [isdir |-> FALSE, files |-> [sn \in SerialInputs |-> NoFile]]

\* The sensor readings explored, without their line ends
SensorReadings == {<<"0", "0">>, <<"0", "1">>, <<"1", "0">>, <<"1", "1">>}

\* The lines `for line in f` yields for a file of the given readings: every
\* line keeps its newline, the last one has none when the file does not end
\* with one
SensorFile(readings, newline_at_end) ==
    File([i \in 1..Len(readings) |->
            IF i < Len(readings) \/ newline_at_end
            THEN readings[i] \o <<"\n">> ELSE readings[i]])

SensorFiles ==
    {SensorFile(r, nl) :
        r \in UNION {[1..n -> SensorReadings] : n \in 0..MaxSensorLines},
        nl \in BOOLEAN}

\* The directory Sensordata with one file, of SN_A
SensordataWith(file) ==
    [isdir |-> TRUE, files |-> [sn \in SerialInputs |-> IF sn = SN_A THEN file ELSE NoFile]]

\* No directory Secrets
NoSecrets == [SecretKEY |-> NoFile, ActivationCodes |-> NoFile]

Date1 == <<"2", "0", "2", "6", "-", "1", "1", "-", "0", "1">>
Date2 == <<"2", "0", "2", "6", "-", "1", "1", "-", "0", "2">>

\* The secret values explored: "k" + "kc" and "kk" + "c" concatenate alike
Key_k == <<"k">>
Key_kk == <<"k", "k">>
Code_c == <<"c">>
Code_kc == <<"k", "c">>

\* A line "<identifier>:<secret-value>" of a secret store
SecretLine(sn, secret) == sn \o <<":">> \o secret \o <<"\n">>

\* The store files explored, for the secrets x of SN_A and y of SN_B: missing,
\* empty, without SN_A, SN_A after SN_B, SN_A twice with x first, and SN_A on
\* a last line without newline
StoreFiles(x, y) ==
    {NoFile,
     File(<<>>),
     File(<<SecretLine(SN_B, y)>>),
     File(<<SecretLine(SN_B, y), SecretLine(SN_A, x)>>),
     File(<<SecretLine(SN_A, x), SecretLine(SN_A, y)>>),
     File(<<SecretLine(SN_B, y), SN_A \o <<":">> \o x>>)}

\* The auth strings explored: every date + key + code, and two others
AuthStrings ==
    {d \o k \o c : d \in {Date1, Date2}, k \in {Key_k, Key_kk}, c \in {Code_c, Code_kc}}
        \cup {<<>>, Date1}

-----------------------------------------------------------------------------
(* _Submarine *)

\* _Submarine.__init__
Submarine(serial_number) ==
    [serial_number |-> serial_number, position |-> <<0, 0>>, movement_log |-> <<>>]

\* A distance without the squares
dist_from_base_sum(sub) == sub.position[1] + sub.position[2]

\* _Submarine.dist_from_base
dist_from_base(sub) == sub.position[1] * sub.position[1] + sub.position[2] * sub.position[2]

\* _Submarine.__str__
Str(sub) == <<"|Submarine ", sub.serial_number, " at ", sub.position, "|">>

\* A deque that evicts one append too late
deque_append_late(d, x) ==
    IF Len(d) > max_move_logs THEN Append(Tail(d), x) ELSE Append(d, x)

\* deque(maxlen=max_move_logs).append
deque_append(d, x) ==
    IF Len(d) >= max_move_logs THEN Append(Tail(d), x) ELSE Append(d, x)

\* A move with the vertical signs exchanged
move_body_swapped(sub, dir, dist) ==
    CASE dir = Up -> [sub EXCEPT !.position[1] = @ - dist]
      [] dir = Down -> [sub EXCEPT !.position[1] = @ + dist]
      [] dir = Forward -> [sub EXCEPT !.position[2] = @ + dist]
      [] OTHER -> sub

\* The body of _Submarine.move: the match statement
move_body(sub, dir, dist) ==
    CASE dir = Up -> [sub EXCEPT !.position[1] = @ + dist]
      [] dir = Down -> [sub EXCEPT !.position[1] = @ - dist]
      [] dir = Forward -> [sub EXCEPT !.position[2] = @ + dist]
      [] OTHER -> sub

\* A record built from the position read before the move only
log_entry_stale(sub, dir, dist) ==
    <<sub.position, dir, dist, sub.position>>

\* The record _log_movement builds around one call of move
log_entry(sub, dir, dist) ==
    <<sub.position, dir, dist, move_body(sub, dir, dist).position>>

\* _Submarine.move as decorated with _log_movement
move(sub, dir, dist) ==
    [move_body(sub, dir, dist) EXCEPT
        !.movement_log = deque_append(@, log_entry(sub, dir, dist))]

\* The loop of move_submarine_by_reports over _Submarine.movement, from record
\* i on. st.sub is the submarine, st.hist the records logged so far, st.err
\* the exception that ended the loop ("" when none).
RECURSIVE MoveFrom(_, _, _)
MoveFrom(st, lines, i) ==
    IF i > Len(lines) THEN st
    ELSE LET tok == split(lines[i]) IN
         IF Len(tok) # 2 \/ ~isdigit(tok[2])
         THEN MoveFrom(st, lines, i + 1)
         ELSE IF ~IntOk(tok[2])
              THEN [st EXCEPT !.err = "ValueError"]
              ELSE LET moved == [sub |-> move(st.sub, tok[1], int(tok[2])),
                                 hist |-> Append(st.hist,
                                                 log_entry(st.sub, tok[1], int(tok[2]))),
                                 err |-> ""] IN
                   \* the move is made before the next record is read
                   IF moved.err = "" THEN MoveFrom(moved, lines, i + 1) ELSE moved

-----------------------------------------------------------------------------
(* SubmarineSystem *)

Serials == {submarines[i].serial_number : i \in 1..Len(submarines)}

\* The place of a serial number in the dict, 0 when it is not a key
IndexOf(serial_number) ==
    IF serial_number \in Serials
    THEN CHOOSE i \in 1..Len(submarines) : submarines[i].serial_number = serial_number
    ELSE 0

\* _get_sub, for a serial number that is a key
get_sub(serial_number) == submarines[IndexOf(serial_number)]

\* self._submarines[serial_number] = sub : a new key goes last, an old key
\* keeps its place
dict_set(d, sub) ==
    IF \E i \in 1..Len(d) : d[i].serial_number = sub.serial_number
    THEN [i \in 1..Len(d) |-> IF d[i].serial_number = sub.serial_number THEN sub ELSE d[i]]
    ELSE Append(d, sub)

Call(op, sn, dir, outcome, value) ==
    [op |-> op, sn |-> sn, dir |-> dir, outcome |-> outcome, value |-> value,
     fired |-> FALSE, arg |-> <<>>, printed |-> ""]

NoDir == <<>>
None == <<"None">>
True == <<"True">>
False == <<"False">>

\* A register_submarine that leaves the new submarine where the old one was
RegisterSubmarineInPlace(sn) ==
    IF ~serial_number_pattern_match(sn)
    THEN /\ last' = Call("register_submarine", sn, NoDir, "ValueError", None)
         /\ UNCHANGED <<submarines, occupied_positions, collided_submarines,
                        env, logged>>
    ELSE /\ submarines' = dict_set(submarines,
                                   IF sn \in Serials
                                   THEN [Submarine(sn) EXCEPT !.position = get_sub(sn).position]
                                   ELSE Submarine(sn))
         /\ logged' = [logged EXCEPT ![sn] = <<>>]
         /\ last' = Call("register_submarine", sn, NoDir, "return", None)
         /\ UNCHANGED <<occupied_positions, collided_submarines, env>>

\* A register_submarine that keeps the submarine already registered
RegisterSubmarineKeep(sn) ==
    IF ~serial_number_pattern_match(sn)
    THEN /\ last' = Call("register_submarine", sn, NoDir, "ValueError", None)
         /\ UNCHANGED <<submarines, occupied_positions, collided_submarines,
                        env, logged>>
    ELSE /\ submarines' = IF sn \in Serials THEN submarines
                          ELSE dict_set(submarines, Submarine(sn))
         /\ logged' = IF sn \in Serials THEN logged ELSE [logged EXCEPT ![sn] = <<>>]
         /\ last' = Call("register_submarine", sn, NoDir, "return", None)
         /\ UNCHANGED <<occupied_positions, collided_submarines, env>>

\* register_submarine
RegisterSubmarine(sn) ==
    IF ~serial_number_pattern_match(sn)
    THEN /\ last' = Call("register_submarine", sn, NoDir, "ValueError", None)
         /\ UNCHANGED <<submarines, occupied_positions, collided_submarines,
                        env, logged>>
    ELSE /\ submarines' = dict_set(submarines, Submarine(sn))
         /\ logged' = [logged EXCEPT ![sn] = <<>>]
         /\ last' = Call("register_submarine", sn, NoDir, "return", None)
         /\ UNCHANGED <<occupied_positions, collided_submarines, env>>

\* A clear that resets the collision state too
ClearEverything ==
    /\ submarines' = <<>>
    /\ occupied_positions' = {}
    /\ collided_submarines' = <<>>
    /\ logged' = [sn \in SerialInputs |-> <<>>]
    /\ last' = Call("clear_submarines", <<>>, NoDir, "return", None)
    /\ UNCHANGED env

\* clear_submarines
ClearSubmarines ==
    /\ submarines' = <<>>
    /\ logged' = [sn \in SerialInputs |-> <<>>]
    /\ last' = Call("clear_submarines", <<>>, NoDir, "return", None)
    /\ UNCHANGED <<occupied_positions, collided_submarines, env>>

\* lookup_submarine: its return value
lookup_submarine(sn) ==
    IF sn \in Serials THEN Str(get_sub(sn)) ELSE None

LookupSubmarine(sn) ==
    /\ last' = Call("lookup_submarine", sn, NoDir, "return", lookup_submarine(sn))
    /\ UNCHANGED <<submarines, occupied_positions, collided_submarines,
                   env, logged>>

\* A retrieval that hands the movement log over and leaves the submarine an
\* empty one
GetSubmarineMovementLogDrain(sn) ==
    /\ last' = IF sn \in Serials
               THEN Call("get_submarine_movement_log", sn, NoDir, "return",
                         get_sub(sn).movement_log)
               ELSE Call("get_submarine_movement_log", sn, NoDir, "LookupError", None)
    /\ submarines' = IF sn \in Serials
                     THEN dict_set(submarines, [get_sub(sn) EXCEPT !.movement_log = <<>>])
                     ELSE submarines
    /\ UNCHANGED <<occupied_positions, collided_submarines, env, logged>>

\* get_submarine_movement_log
GetSubmarineMovementLog(sn) ==
    /\ last' = IF sn \in Serials
               THEN Call("get_submarine_movement_log", sn, NoDir, "return",
                         get_sub(sn).movement_log)
               ELSE Call("get_submarine_movement_log", sn, NoDir, "LookupError", None)
    /\ UNCHANGED <<submarines, occupied_positions, collided_submarines,
                   env, logged>>

\* The property submarines: the serial numbers, in the order of the dict
submarines_keys ==
    Call("submarines", <<>>, NoDir, "return",
         <<"keys", [i \in 1..Len(submarines) |-> submarines[i].serial_number]>>)

EnumerateSubmarines ==
    /\ last' = submarines_keys
    /\ UNCHANGED <<submarines, occupied_positions, collided_submarines, env, logged>>

\* A friendly-fire condition with strict comparisons
friendly_fire_strict(firing_sub, sub, dir) ==
    CASE dir = Up ->
            /\ firing_sub.position[2] = sub.position[2]
            /\ sub.position[1] > firing_sub.position[1]
      [] dir = Down ->
            /\ firing_sub.position[2] = sub.position[2]
            /\ sub.position[1] < firing_sub.position[1]
      [] dir = Forward ->
            /\ firing_sub.position[1] = sub.position[1]
            /\ sub.position[2] > firing_sub.position[2]
      [] OTHER -> FALSE

\* The condition under which `sub` makes a shot of `firing_sub` friendly fire
friendly_fire(firing_sub, sub, dir) ==
    CASE dir = Up ->
            /\ firing_sub.position[2] = sub.position[2]
            /\ sub.position[1] >= firing_sub.position[1]
      [] dir = Down ->
            /\ firing_sub.position[2] = sub.position[2]
            /\ sub.position[1] <= firing_sub.position[1]
      [] dir = Forward ->
            /\ firing_sub.position[1] = sub.position[1]
            /\ sub.position[2] >= firing_sub.position[2]
      [] OTHER -> FALSE

\* The loop of _prevent_friendly_fire.wrapper from the i-th submarine on: the
\* place of the submarine the loop breaks at, 0 when it runs to its end
RECURSIVE BreakAt(_, _, _)
BreakAt(fi, dir, i) ==
    IF i > Len(submarines) THEN 0
    ELSE IF i # fi /\ friendly_fire(submarines[fi], submarines[i], dir)
         THEN i
         ELSE BreakAt(fi, dir, i + 1)

\* order_torpedo as written, without the decorator
order_torpedo_func(sn, dir) ==
    IF sn \notin Serials
    THEN Call("order_torpedo", sn, dir, "LookupError", None)
    ELSE [Call("order_torpedo", sn, dir, "return", True) EXCEPT !.fired = TRUE]

\* A guard that applies the forward rule to every direction it does not know
order_torpedo_guard_all(sn, dir) ==
    IF sn \notin Serials
    THEN IF Len(submarines) > 0
         THEN Call("order_torpedo", sn, dir, "AttributeError", None)
         ELSE order_torpedo_func(sn, dir)
    ELSE LET d == IF dir \in {Up, Down, Forward} THEN dir ELSE Forward
             b == BreakAt(IndexOf(sn), d, 1) IN
         IF b # 0
         THEN Call("order_torpedo", sn, dir, "return", <<"sub", submarines[b]>>)
         ELSE order_torpedo_func(sn, dir)

\* order_torpedo as decorated with _prevent_friendly_fire. With firing_sub None
\* the first submarine the loop meets makes firing_sub.position raise.
order_torpedo(sn, dir) ==
    IF dir \in {Up, Down, Forward}
    THEN IF sn \notin Serials
         THEN IF Len(submarines) > 0
              THEN Call("order_torpedo", sn, dir, "AttributeError", None)
              ELSE order_torpedo_func(sn, dir)
         ELSE LET b == BreakAt(IndexOf(sn), dir, 1) IN
              IF b # 0
              THEN Call("order_torpedo", sn, dir, "return", <<"sub", submarines[b]>>)
              ELSE order_torpedo_func(sn, dir)
    ELSE order_torpedo_func(sn, dir)

OrderTorpedo(sn, dir) ==
    /\ last' = order_torpedo(sn, dir)
    /\ UNCHANGED <<submarines, occupied_positions, collided_submarines,
                   env, logged>>

\* c in line
contains(line, c) == \E k \in 1..Len(line) : line[k] = c

\* line.count(c) for a one-character c
count(line, c) == Cardinality({k \in 1..Len(line) : line[k] = c})

\* The place of the key `line` in the dict errors, 0 when it is not a key
errors_index(errors, line) ==
    IF \E k \in 1..Len(errors) : errors[k].key = line
    THEN CHOOSE k \in 1..Len(errors) : errors[k].key = line
    ELSE 0

\* A loop body that keys the errors by their number of failed sensors
errors_add_by_count(errors, line) ==
    IF ~contains(line, "0") THEN errors
    ELSE LET same == {k \in 1..Len(errors) : errors[k].value.sensor_failures = count(line, "0")} IN
         IF same = {}
         THEN Append(errors, [key |-> line,
                              value |-> [sensor_failures |-> count(line, "0"),
                                         error_occurences |-> 1]])
         ELSE [errors EXCEPT ![CHOOSE k \in same : TRUE].value.error_occurences = @ + 1]

\* The body of the loop of count_sensor_errors; errors is the dict in
\* insertion order
errors_add(errors, line) ==
    IF ~contains(line, "0") THEN errors
    ELSE IF errors_index(errors, line) = 0
         THEN Append(errors, [key |-> line,
                              value |-> [sensor_failures |-> count(line, "0"),
                                         error_occurences |-> 1]])
         ELSE [errors EXCEPT ![errors_index(errors, line)].value.error_occurences = @ + 1]

\* The loop of count_sensor_errors over sub.sensor_data, from line i on
RECURSIVE ErrorsFrom(_, _, _)
ErrorsFrom(errors, lines, i) ==
    IF i > Len(lines) THEN errors
    ELSE ErrorsFrom(errors_add(errors, lines[i]), lines, i + 1)

\* count_sensor_errors: the call and its result, list(errors.values())
count_sensor_errors(sn) ==
    IF ~Sensordata.isdir
    THEN Call("count_sensor_errors", sn, NoDir, "FileNotFoundError", None)
    ELSE IF sn \notin Serials
    THEN Call("count_sensor_errors", sn, NoDir, "LookupError", None)
    ELSE IF ~Sensordata.files[sn].exists
    THEN Call("count_sensor_errors", sn, NoDir, "FileNotFoundError", None)
    ELSE LET errors == ErrorsFrom(<<>>, Sensordata.files[sn].lines, 1) IN
         Call("count_sensor_errors", sn, NoDir, "return",
              [k \in 1..Len(errors) |-> errors[k].value])

CountSensorErrors(sn) ==
    /\ last' = count_sensor_errors(sn)
    /\ UNCHANGED <<submarines, occupied_positions, collided_submarines, env, logged>>

\* hashlib.sha256(s.encode()).hexdigest(), taken as injective
sha256_hexdigest(s) == <<"sha256", s>>

\* line.split(":") : the fields between the colons, empty ones included
RECURSIVE SplitColonFrom(_, _, _)
SplitColonFrom(s, i, cur) ==
    IF i > Len(s) THEN <<cur>>
    ELSE IF s[i] = ":"
         THEN <<cur>> \o SplitColonFrom(s, i + 1, <<>>)
         ELSE SplitColonFrom(s, i + 1, Append(cur, s[i]))

split_colon(s) == SplitColonFrom(s, 1, <<>>)

\* s.strip("\n") : without the newlines at its two ends
RECURSIVE strip_newline(_)
strip_newline(s) ==
    IF s = <<>> THEN s
    ELSE IF Head(s) = "\n" THEN strip_newline(Tail(s))
    ELSE IF s[Len(s)] = "\n" THEN strip_newline(SubSeq(s, 1, Len(s) - 1))
    ELSE s

\* The loop of _find_my_secret_key and of _find_my_activation_code over the
\* lines of the store, from line i on
RECURSIVE FindFrom(_, _, _)
FindFrom(lines, serial_number, i) ==
    IF i > Len(lines) THEN [err |-> "LookupError", value |-> <<>>]
    ELSE LET fields == split_colon(lines[i]) IN
         IF fields[1] = serial_number
         THEN IF Len(fields) < 2
              THEN [err |-> "IndexError", value |-> <<>>]
              ELSE [err |-> "", value |-> strip_newline(fields[2])]
         ELSE FindFrom(lines, serial_number, i + 1)

\* _find_my_secret_key
find_my_secret_key(sub) == FindFrom(Secrets.SecretKEY.lines, sub.serial_number, 1)

\* _find_my_activation_code
find_my_activation_code(sub) == FindFrom(Secrets.ActivationCodes.lines, sub.serial_number, 1)

\* A ready_nuke that combines the code before the key
ready_nuke_code_first(sub, hex_str) ==
    IF ~Secrets.ActivationCodes.exists \/ ~Secrets.SecretKEY.exists
    THEN [err |-> "FileNotFoundError", value |-> FALSE]
    ELSE LET key == find_my_secret_key(sub)
             code == find_my_activation_code(sub) IN
         IF key.err # "" THEN [err |-> key.err, value |-> FALSE]
         ELSE IF code.err # "" THEN [err |-> code.err, value |-> FALSE]
         ELSE [err |-> "",
               value |-> sha256_hexdigest(today \o code.value \o key.value) = hex_str]

\* _Submarine.ready_nuke: the exception it raises ("" when none) and the
\* boolean it returns
ready_nuke(sub, hex_str) ==
    IF ~Secrets.ActivationCodes.exists \/ ~Secrets.SecretKEY.exists
    THEN [err |-> "FileNotFoundError", value |-> FALSE]
    ELSE LET key == find_my_secret_key(sub)
             code == find_my_activation_code(sub) IN
         IF key.err # "" THEN [err |-> key.err, value |-> FALSE]
         ELSE IF code.err # "" THEN [err |-> code.err, value |-> FALSE]
         ELSE [err |-> "",
               value |-> sha256_hexdigest(today \o key.value \o code.value) = hex_str]

\* activate_nuke: the call and its result. sub.ready_nuke raises
\* AttributeError when sub is None; the method prints what ready_nuke
\* returned and itself returns None.
activate_nuke(sn, auth_string) ==
    LET call(outcome, printed) ==
            [Call("activate_nuke", sn, NoDir, outcome, None) EXCEPT
                !.arg = auth_string, !.printed = printed] IN
    IF sn \notin Serials THEN call("AttributeError", "")
    ELSE LET success == ready_nuke(get_sub(sn), sha256_hexdigest(auth_string)) IN
         IF success.err # "" THEN call(success.err, "")
         ELSE IF success.value
              THEN call("return", "Successfully activated nuke")
              ELSE call("return", "Could not ready nuke, wrong auth string!")

ActivateNuke(sn, auth_string) ==
    /\ last' = activate_nuke(sn, auth_string)
    /\ UNCHANGED <<submarines, occupied_positions, collided_submarines, env, logged>>

\* A sort that puts equal keys in the reverse of their order
sorted_unstable(subs, keys) ==
    LET rank(i) == Cardinality({j \in 1..Len(subs) :
                        keys[j] < keys[i] \/ (keys[j] = keys[i] /\ j >= i)})
    IN  [k \in 1..Len(subs) |-> subs[CHOOSE i \in 1..Len(subs) : rank(i) = k]]

\* sorted(subs, key=...) for the keys keys[i] of subs[i]: ascending, and
\* stable (equal keys keep their order)
sorted(subs, keys) ==
    LET rank(i) == Cardinality({j \in 1..Len(subs) :
                        keys[j] < keys[i] \/ (keys[j] = keys[i] /\ j <= i)})
    IN  [k \in 1..Len(subs) |-> subs[CHOOSE i \in 1..Len(subs) : rank(i) = k]]

\* A wrapper without the test for an empty registry
unsafe_sort_subs(sorted_subs) == [err |-> "", subs |-> sorted_subs]

\* _safe_sort_subs.wrapper around a function that returns sorted_subs
safe_sort_subs(sorted_subs) ==
    IF Len(submarines) = 0
    THEN [err |-> "ValueError", subs |-> <<>>]
    ELSE [err |-> "", subs |-> sorted_subs]

\* _get_subs_sorted_dist
get_subs_sorted_dist ==
    safe_sort_subs(sorted(submarines,
                          [i \in 1..Len(submarines) |-> dist_from_base(submarines[i])]))

\* _get_subs_sorted_vertical
get_subs_sorted_vertical ==
    safe_sort_subs(sorted(submarines,
                          [i \in 1..Len(submarines) |-> submarines[i].position[1]]))

\* str(sorted_subs[0]) or str(sorted_subs[len(sorted_subs) - 1]) of a ranking
\* query: the call and its result (index -1 of an empty list raises like 0)
ranking_query(op, r, first) ==
    IF r.err # "" THEN Call(op, <<>>, NoDir, r.err, None)
    ELSE IF Len(r.subs) = 0 THEN Call(op, <<>>, NoDir, "IndexError", None)
    ELSE Call(op, <<>>, NoDir, "return", Str(r.subs[IF first THEN 1 ELSE Len(r.subs)]))

get_furthest_submarine == ranking_query("get_furthest_submarine", get_subs_sorted_dist, FALSE)

get_closest_submarine == ranking_query("get_closest_submarine", get_subs_sorted_dist, TRUE)

get_lowest_submarine == ranking_query("get_lowest_submarine", get_subs_sorted_vertical, TRUE)

get_highest_submarine == ranking_query("get_highest_submarine", get_subs_sorted_vertical, FALSE)

GetFurthestSubmarine ==
    /\ last' = get_furthest_submarine
    /\ UNCHANGED <<submarines, occupied_positions, collided_submarines, env, logged>>

GetClosestSubmarine ==
    /\ last' = get_closest_submarine
    /\ UNCHANGED <<submarines, occupied_positions, collided_submarines, env, logged>>

GetLowestSubmarine ==
    /\ last' = get_lowest_submarine
    /\ UNCHANGED <<submarines, occupied_positions, collided_submarines, env, logged>>

GetHighestSubmarine ==
    /\ last' = get_highest_submarine
    /\ UNCHANGED <<submarines, occupied_positions, collided_submarines, env, logged>>

\* The number of move_submarine_by_reports calls that reached the collision step
MoveCalls == Cardinality(occupied_positions) + Len(collided_submarines)

\* A collision logger that records every submarine it checks
collided_always(sub) == Append(collided_submarines, sub.serial_number)

\* A collision logger that lists a submarine once
collided_once(sub) ==
    IF sub.position \in occupied_positions
            /\ \A k \in 1..Len(collided_submarines) : collided_submarines[k] # sub.serial_number
    THEN Append(collided_submarines, sub.serial_number)
    ELSE collided_submarines

\* _collision_logger.wrapper after func returned: the new collided list
collided_after(sub) ==
    IF sub.position \in occupied_positions
    THEN Append(collided_submarines, sub.serial_number)
    ELSE collided_submarines

\* A collision logger that indexes every cell the movement log holds
occupied_each_step(sub) ==
    IF sub.position \in occupied_positions
    THEN occupied_positions
    ELSE occupied_positions \cup {sub.position}
            \cup {sub.movement_log[k][4] : k \in 1..Len(sub.movement_log)}

\* _collision_logger.wrapper after func returned: the new index
occupied_after(sub) ==
    IF sub.position \in occupied_positions
    THEN occupied_positions
    ELSE occupied_positions \cup {sub.position}

\* A collision logger that runs its check also when the report is missing
MoveSubmarineByReportsFinally(sn, cap) ==
    IF sn \notin Serials
    THEN /\ last' = Call("move_submarine_by_reports", sn, NoDir, "LookupError", None)
         /\ UNCHANGED <<submarines, occupied_positions, collided_submarines,
                        env, logged>>
    ELSE IF ~MovementReports[sn].exists
    THEN /\ MoveCalls < cap
         /\ collided_submarines' = collided_after(get_sub(sn))
         /\ occupied_positions' = occupied_after(get_sub(sn))
         /\ last' = Call("move_submarine_by_reports", sn, NoDir, "FileNotFoundError", None)
         /\ UNCHANGED <<submarines, env, logged>>
    ELSE LET st == MoveFrom([sub |-> get_sub(sn), hist |-> logged[sn], err |-> ""],
                            MovementReports[sn].lines, 1) IN
         /\ submarines' = dict_set(submarines, st.sub)
         /\ logged' = [logged EXCEPT ![sn] = st.hist]
         /\ UNCHANGED env
         /\ IF st.err # ""
            THEN /\ Len(st.hist) <= MaxPartialRecords
                 /\ last' = Call("move_submarine_by_reports", sn, NoDir, st.err, None)
                 /\ UNCHANGED <<occupied_positions, collided_submarines>>
            ELSE /\ MoveCalls < cap
                 /\ collided_submarines' = collided_after(st.sub)
                 /\ occupied_positions' = occupied_after(st.sub)
                 /\ last' = Call("move_submarine_by_reports", sn, NoDir, "return", None)

\* move_submarine_by_reports as decorated with _collision_logger
\* (explored while fewer than `cap` calls reached the collision step, and
\* while a report that fails midway leaves at most MaxPartialRecords records)
MoveSubmarineByReports(sn, cap) ==
    IF sn \notin Serials
    THEN /\ last' = Call("move_submarine_by_reports", sn, NoDir, "LookupError", None)
         /\ UNCHANGED <<submarines, occupied_positions, collided_submarines,
                        env, logged>>
    ELSE IF ~MovementReports[sn].exists
    THEN /\ last' = Call("move_submarine_by_reports", sn, NoDir, "FileNotFoundError", None)
         /\ UNCHANGED <<submarines, occupied_positions, collided_submarines,
                        env, logged>>
    ELSE LET st == MoveFrom([sub |-> get_sub(sn), hist |-> logged[sn], err |-> ""],
                            MovementReports[sn].lines, 1) IN
         /\ submarines' = dict_set(submarines, st.sub)
         /\ logged' = [logged EXCEPT ![sn] = st.hist]
         /\ UNCHANGED env
         /\ IF st.err # ""
            THEN /\ Len(st.hist) <= MaxPartialRecords
                 /\ last' = Call("move_submarine_by_reports", sn, NoDir, st.err, None)
                 /\ UNCHANGED <<occupied_positions, collided_submarines>>
            ELSE /\ MoveCalls < cap
                 /\ collided_submarines' = collided_after(st.sub)
                 /\ occupied_positions' = occupied_after(st.sub)
                 /\ last' = Call("move_submarine_by_reports", sn, NoDir, "return", None)

-----------------------------------------------------------------------------
(* The system driven by any sequence of calls *)

InitWith(reports) ==
    /\ submarines = <<>>
    /\ occupied_positions = {}
    /\ collided_submarines = <<>>
    /\ MovementReports = reports
    /\ Sensordata = NoSensordata
    /\ Secrets = NoSecrets
    /\ today = Date1
    /\ logged = [sn \in SerialInputs |-> <<>>]
    /\ last = Call("__init__", <<>>, NoDir, "return", None)

Init == InitWith(ShortReports)

\* Any call with a serial number of R to register_submarine and one of Q to
\* the other methods
NextOver(R, Q, cap) ==
    \/ \E sn \in R : RegisterSubmarine(sn)
    \/ ClearSubmarines
    \/ \E sn \in Q : LookupSubmarine(sn)
    \/ \E sn \in Q : GetSubmarineMovementLog(sn)
    \/ \E sn \in Q, dir \in DirectionInputs : OrderTorpedo(sn, dir)
    \/ \E sn \in Q : MoveSubmarineByReports(sn, cap)

Malformed == {SN_hello, SN_7digits, SN_3suffix, SN_nohyphen}

Next ==
    NextOver({SN_A, SN_B, SN_C} \cup Malformed, {SN_A, SN_B, SN_C, SN_123}, MaxMoveCalls)

Spec == Init /\ [][Next]_vars

\* The same system over report files longer than the movement log
InitLog == InitWith(LongReports)

NextLog == NextOver({SN_A, SN_B, SN_hello}, {SN_A, SN_B, SN_123}, MaxMoveCalls)

SpecLog == InitLog /\ [][NextLog]_vars

\* The same system called with a serial number that ends in a newline
NextNewline ==
    NextOver({SN_A, SN_B, SN_A_newline} \cup Malformed,
             {SN_A, SN_B, SN_A_newline, SN_123}, MaxMoveCalls)

SpecNewline == Init /\ [][NextNewline]_vars

\* The same system over reports that end on one cell
NextSameCell == NextOver({SN_A, SN_B, SN_C, SN_hello}, {SN_A, SN_B, SN_C}, MaxSameCellCalls)

InitSameCell == InitWith(SameCellReports)

SpecSameCell == InitSameCell /\ [][NextSameCell]_vars

\* The same system over reports with invalid records and a missing report
InitFaulty == InitWith(FaultyReports)

NextFaulty == NextOver({SN_A, SN_B, SN_C, SN_hello}, {SN_A, SN_B, SN_C, SN_123}, MaxMoveCalls)

SpecFaulty == InitFaulty /\ [][NextFaulty]_vars

-----------------------------------------------------------------------------
(* One submarine moved one record at a time: the loop body of                *)
(* move_submarine_by_reports, for any direction and distance                 *)

InitMove ==
    /\ submarines = <<Submarine(SN_A)>>
    /\ occupied_positions = {}
    /\ collided_submarines = <<>>
    /\ MovementReports = ShortReports
    /\ Sensordata = NoSensordata
    /\ Secrets = NoSecrets
    /\ today = Date1
    /\ logged = [sn \in SerialInputs |-> <<>>]
    /\ last = Call("register_submarine", SN_A, NoDir, "return", None)

\* sub.move(dir, dist) on the registered submarine
MoveStep(dir, dist) ==
    /\ Len(logged[SN_A]) < MaxSteps
    /\ submarines' = <<move(submarines[1], dir, dist)>>
    /\ logged' = [logged EXCEPT ![SN_A] = Append(@, log_entry(submarines[1], dir, dist))]
    /\ last' = Call("move", SN_A, dir, "return", <<dist>>)
    /\ UNCHANGED <<occupied_positions, collided_submarines, env>>

NextMove == \E dir \in DirectionInputs, dist \in 0..MaxDist : MoveStep(dir, dist)

SpecMove == InitMove /\ [][NextMove]_vars

-----------------------------------------------------------------------------
(* The ranking queries over a fleet registered, moved and cleared in any order *)

InitRanking == InitWith(RankingReports)

NextRanking ==
    \/ \E sn \in {SN_A, SN_B, SN_C} : RegisterSubmarine(sn)
    \/ ClearSubmarines
    \/ \E sn \in {SN_A, SN_B, SN_C} : MoveSubmarineByReports(sn, MaxRankedMoves)
    \/ GetFurthestSubmarine
    \/ GetClosestSubmarine
    \/ GetLowestSubmarine
    \/ GetHighestSubmarine

SpecRanking == InitRanking /\ [][NextRanking]_vars

-----------------------------------------------------------------------------
(* Every public operation, over a fleet with reports, sensor data and secrets *)

InitAll ==
    /\ submarines = <<>>
    /\ occupied_positions = {}
    /\ collided_submarines = <<>>
    /\ MovementReports = ShortReports
    /\ Sensordata = SensordataWith(SensorFile(<<<<"0", "1">>, <<"1", "1">>, <<"0", "1">>>>, TRUE))
    /\ Secrets = [SecretKEY |-> File(<<SecretLine(SN_A, Key_k)>>),
                  ActivationCodes |-> File(<<SecretLine(SN_A, Code_c)>>)]
    /\ today = Date1
    /\ logged = [sn \in SerialInputs |-> <<>>]
    /\ last = Call("__init__", <<>>, NoDir, "return", None)

NextAll ==
    \/ NextOver({SN_A, SN_B}, {SN_A, SN_B, SN_123}, MaxMoveCalls)
    \/ EnumerateSubmarines
    \/ GetFurthestSubmarine
    \/ GetClosestSubmarine
    \/ GetLowestSubmarine
    \/ GetHighestSubmarine
    \/ \E sn \in {SN_A, SN_B, SN_123} : CountSensorErrors(sn)
    \/ \E sn \in {SN_A, SN_B, SN_123}, auth_string \in {Date1 \o Key_k \o Code_c, Date1} :
            ActivateNuke(sn, auth_string)

SpecAll == InitAll /\ [][NextAll]_vars

-----------------------------------------------------------------------------
(* Sensor errors counted over any sensor data file of SN_A *)

InitSensor ==
    /\ submarines = <<>>
    /\ occupied_positions = {}
    /\ collided_submarines = <<>>
    /\ MovementReports = ShortReports
    /\ Sensordata \in {NoSensordata, SensordataWith(NoFile)}
                        \cup {SensordataWith(f) : f \in SensorFiles}
    /\ Secrets = NoSecrets
    /\ today = Date1
    /\ logged = [sn \in SerialInputs |-> <<>>]
    /\ last = Call("__init__", <<>>, NoDir, "return", None)

NextSensor ==
    \/ \E sn \in {SN_A, SN_B} : RegisterSubmarine(sn)
    \/ \E sn \in {SN_A, SN_B, SN_123} : CountSensorErrors(sn)

SpecSensor == InitSensor /\ [][NextSensor]_vars

-----------------------------------------------------------------------------
(* The nuke activated with any auth string, over any two secret stores *)

InitNuke ==
    /\ submarines = <<>>
    /\ occupied_positions = {}
    /\ collided_submarines = <<>>
    /\ MovementReports = ShortReports
    /\ Sensordata = NoSensordata
    /\ Secrets \in [SecretKEY : StoreFiles(Key_k, Key_kk),
                     ActivationCodes : StoreFiles(Code_kc, Code_c)]
    /\ today \in {Date1, Date2}
    /\ logged = [sn \in SerialInputs |-> <<>>]
    /\ last = Call("__init__", <<>>, NoDir, "return", None)

NextNuke ==
    \/ \E sn \in {SN_A, SN_B} : RegisterSubmarine(sn)
    \/ \E sn \in {SN_A, SN_B, SN_123}, auth_string \in AuthStrings :
            ActivateNuke(sn, auth_string)

SpecNuke == InitNuke /\ [][NextNuke]_vars

-----------------------------------------------------------------------------
(* Properties *)

Range(f) == {f[i] : i \in DOMAIN f}

\* The shape XXXXXXXX-XX: 8 decimal digits, a hyphen, 2 decimal digits
IsIdentifier(s) ==
    /\ Len(s) = 11
    /\ \A i \in 1..8 : s[i] \in AsciiDigits
    /\ s[9] = "-"
    /\ \A i \in 10..11 : s[i] \in AsciiDigits

\* This step is a call of move_submarine_by_reports(sn) that returned
MovedOkStep(sn) ==
    /\ last'.op = "move_submarine_by_reports"
    /\ last'.outcome = "return"
    /\ last'.sn = sn

PositionOf(sn) == get_sub(sn).position

\* C1: registering an identifier of the shape XXXXXXXX-XX succeeds from any
\* state, and a lookup right after it shows that identifier at (0,0); the
\* entity's movement log is empty.
C1_RegisterThenLookup ==
    (last.op = "register_submarine" /\ IsIdentifier(last.sn)) =>
        /\ last.outcome = "return"
        /\ lookup_submarine(last.sn) = <<"|Submarine ", last.sn, " at ", <<0, 0>>, "|">>
        /\ last.sn \in Serials
        /\ get_sub(last.sn).movement_log = <<>>

\* A submarine that had moved and collided has just been registered again
C1_Witness ==
    /\ last.op = "register_submarine"
    /\ last.outcome = "return"
    /\ last.sn \in Range(collided_submarines)

\* C2: register fails with ValueError for every identifier that is not of the
\* shape XXXXXXXX-XX, so every registered entity's identifier has that shape.
C2_OnlyIdentifiersRegistered ==
    /\ (last.op = "register_submarine" /\ ~IsIdentifier(last.sn)) =>
            last.outcome = "ValueError"
    /\ \A i \in 1..Len(submarines) : IsIdentifier(submarines[i].serial_number)

\* C3: a movement log never holds more than 50 records, and it holds the
\* records logged last, in the order they were logged: all of them up to 50,
\* the last 50 after that.
C3_LogHoldsLast50 ==
    \A i \in 1..Len(submarines) :
        LET log == submarines[i].movement_log
            h == logged[submarines[i].serial_number]
            n == Len(h)
        IN  /\ Len(log) <= 50
            /\ log = IF n <= 50 THEN h ELSE SubSeq(h, n - 49, n)

\* A submarine has logged 51 records and its log holds the 2nd to the 51st
C3_Witness ==
    \E i \in 1..Len(submarines) :
        LET h == logged[submarines[i].serial_number] IN
        /\ Len(h) = 51
        /\ Len(submarines[i].movement_log) = 50
        /\ submarines[i].movement_log[1] = h[2]
        /\ submarines[i].movement_log[50] = h[51]
        /\ h[1] # h[2]

\* C4: a move in a direction outside {up, down, forward} changes neither the
\* position nor the movement log.
C4_InvalidDirectionNoEffect ==
    [][(last'.op = "move" /\ last'.dir \notin {Up, Down, Forward}) =>
            /\ submarines'[1].position = submarines[1].position
            /\ submarines'[1].movement_log = submarines[1].movement_log]_vars

C6_Pair(f, s) ==
    /\ f # s
    /\ f \in Serials
    /\ last.op = "move_submarine_by_reports"
    /\ last.outcome = "return"
    /\ last.sn = f
    /\ MovedOkStep(s)
    /\ PositionOf(s)' = PositionOf(f)

\* C6 as claimed: of two vehicles processed one after the other that end on
\* the same cell, the second is appended to the collided list and the first
\* is not in the collided list.
C6_SecondCollidedFirstNot ==
    [][\A f, s \in {SN_A, SN_B, SN_C} :
            C6_Pair(f, s) =>
                /\ collided_submarines' = Append(collided_submarines, s)
                /\ f \notin Range(collided_submarines')]_vars

\* C6 as amended: of two vehicles processed one after the other that end on
\* the same cell, the second is appended to the collided list; a vehicle is
\* not appended by its own call when its final cell was not in the index.
C6_SecondCollidedFirstIfFree ==
    [][/\ \A f, s \in {SN_A, SN_B, SN_C} :
            C6_Pair(f, s) => collided_submarines' = Append(collided_submarines, s)
       /\ \A f \in {SN_A, SN_B, SN_C} :
            (MovedOkStep(f) /\ PositionOf(f)' \notin occupied_positions) =>
                collided_submarines' = collided_submarines]_vars

\* The second of two vehicles on one cell is the last of the collided list and
\* the first is not in it
C6_Witness ==
    /\ last.op = "move_submarine_by_reports"
    /\ last.outcome = "return"
    /\ Len(collided_submarines) > 0
    /\ collided_submarines[Len(collided_submarines)] = last.sn
    /\ \E i \in 1..Len(submarines) :
            /\ submarines[i].serial_number # last.sn
            /\ submarines[i].position = PositionOf(last.sn)
            /\ submarines[i].position # <<0, 0>>
            /\ submarines[i].serial_number \notin Range(collided_submarines)

\* C7: a call of move-by-reports inserts no cell the vehicle only passed into
\* the index, and it appends to the collided list only the vehicle moved and
\* only when its final cell was in the index.
C7_OnlyFinalCellChecked ==
    [][\A s \in {SN_A, SN_B, SN_C} :
            MovedOkStep(s) =>
                LET final == PositionOf(s)'
                    new == SubSeq(logged'[s], Len(logged[s]) + 1, Len(logged'[s]))
                    passed == {new[k][1] : k \in 1..Len(new)}
                                \cup {new[k][4] : k \in 1..Len(new)}
                IN  /\ \A c \in passed \ {final} :
                            c \in occupied_positions' => c \in occupied_positions
                    /\ collided_submarines' # collided_submarines =>
                            /\ final \in occupied_positions
                            /\ collided_submarines' = Append(collided_submarines, s)]_vars

\* The vehicle moved last passed the cell another vehicle was finalized on,
\* ended elsewhere and is not in the collided list
C7_Witness ==
    /\ last.op = "move_submarine_by_reports"
    /\ last.outcome = "return"
    /\ last.sn \notin Range(collided_submarines)
    /\ \E k \in 1..Len(logged[last.sn]), i \in 1..Len(submarines) :
            /\ submarines[i].serial_number # last.sn
            /\ submarines[i].position = logged[last.sn][k][4]
            /\ submarines[i].position \in occupied_positions
            /\ submarines[i].position # PositionOf(last.sn)

\* C8: clear() empties the registry, so that every lookup returns none, and
\* leaves the Occupied-Position Index and the collided list as they were.
C8_ClearKeepsCollisionState ==
    [][last'.op = "clear_submarines" =>
            /\ submarines' = <<>>
            /\ \A sn \in SerialInputs : lookup_submarine(sn)' = None
            /\ occupied_positions' = occupied_positions
            /\ collided_submarines' = collided_submarines]_vars

\* The registry has just been cleared with cells indexed and a collision listed
C8_Witness ==
    /\ last.op = "clear_submarines"
    /\ occupied_positions # {}
    /\ collided_submarines # <<>>

\* The friendly-fire rule of the claim: b is in the way of a shot of a
C9_Rule(a, b, dir) ==
    \/ dir = Up /\ b.position[2] = a.position[2] /\ b.position[1] >= a.position[1]
    \/ dir = Down /\ b.position[2] = a.position[2] /\ b.position[1] <= a.position[1]
    \/ dir = Forward /\ b.position[1] = a.position[1] /\ b.position[2] >= a.position[2]

C9_Blockers(sn, dir) ==
    {i \in 1..Len(submarines) :
        /\ submarines[i].serial_number # sn
        /\ C9_Rule(get_sub(sn), submarines[i], dir)}

\* C9: a shot of a registered vehicle in one of the three directions is
\* blocked exactly when another registered vehicle satisfies the rule of the
\* direction; blocked, nothing is fired and such a vehicle is returned; not
\* blocked, the torpedo is fired and success is returned.
C9_BlockedIffRule ==
    (last.op = "order_torpedo" /\ last.sn \in Serials /\ last.dir \in {Up, Down, Forward}) =>
        /\ last.outcome = "return"
        /\ IF C9_Blockers(last.sn, last.dir) # {}
           THEN /\ ~last.fired
                /\ last.value[1] = "sub"
                /\ \E i \in C9_Blockers(last.sn, last.dir) : last.value[2] = submarines[i]
           ELSE /\ last.fired
                /\ last.value = True

\* A shot was blocked by one vehicle while another vehicle was not in the way
C9_Witness ==
    /\ last.op = "order_torpedo"
    /\ last.sn \in Serials
    /\ last.value[1] = "sub"
    /\ \E i \in 1..Len(submarines) :
            /\ submarines[i].serial_number # last.sn
            /\ i \notin C9_Blockers(last.sn, last.dir)

\* C10: a shot ordered for an identifier that is not registered fails with
\* LookupError, whatever the direction and the registry.
C10_UnknownShooterNotFound ==
    (last.op = "order_torpedo" /\ last.sn \notin Serials) => last.outcome = "LookupError"

\* C11: a shot of a registered vehicle in a direction outside {up, down,
\* forward} is never blocked: the torpedo is fired and success is returned,
\* wherever the other registered vehicles are.
C11_OtherDirectionNeverBlocked ==
    (last.op = "order_torpedo" /\ last.sn \in Serials
        /\ last.dir \notin {Up, Down, Forward}) =>
        /\ last.outcome = "return"
        /\ last.value = True
        /\ last.fired

\* A shot in an unknown direction succeeded while another vehicle would have
\* blocked the shooter in each of the three directions
C11_Witness ==
    /\ last.op = "order_torpedo"
    /\ last.sn \in Serials
    /\ last.dir = Onwards
    /\ last.value = True
    /\ \A d \in {Up, Down, Forward} : C9_Blockers(last.sn, d) # {}
    /\ PositionOf(last.sn) # <<0, 0>>

\* C12: registering an identifier that is registered returns; the entity of
\* that identifier is then a fresh one at (0,0) with an empty movement log,
\* the number of registered entities is the same and every other entity is
\* unchanged.
C12_ReRegisterReplaces ==
    [][\A sn \in {SN_A, SN_B, SN_C} :
            (last'.op = "register_submarine" /\ last'.sn = sn /\ sn \in Serials) =>
                /\ last'.outcome = "return"
                /\ Len(submarines') = Len(submarines)
                /\ get_sub(sn)' =
                        [serial_number |-> sn, position |-> <<0, 0>>, movement_log |-> <<>>]
                /\ \A t \in Serials \ {sn} :
                        /\ t \in Serials'
                        /\ get_sub(t)' = get_sub(t)]_vars

\* An identifier that had moved and collided was registered again (its key
\* kept its place before a later one) while another entity keeps its log
C12_Witness ==
    /\ last.op = "register_submarine"
    /\ last.outcome = "return"
    /\ IndexOf(last.sn) < Len(submarines)
    /\ last.sn \in Range(collided_submarines)
    /\ get_sub(last.sn).position = <<0, 0>>
    /\ \E i \in 1..Len(submarines) : submarines[i].movement_log # <<>>

\* C13: a move-by-reports call for an identifier that is not registered fails
\* with LookupError, one for a vehicle whose report is missing fails with
\* FileNotFoundError; both leave every vehicle's position and log, the index
\* and the collided list unchanged (no collision check is made).
C13_FailedMoveChangesNothing ==
    [][\A sn \in SerialInputs :
            (last'.op = "move_submarine_by_reports" /\ last'.sn = sn
                /\ (sn \notin Serials \/ ~MovementReports[sn].exists)) =>
                /\ last'.outcome =
                        IF sn \notin Serials THEN "LookupError" ELSE "FileNotFoundError"
                /\ submarines' = submarines
                /\ occupied_positions' = occupied_positions
                /\ collided_submarines' = collided_submarines]_vars

\* The call failed for a registered vehicle whose report is missing, with
\* other cells indexed: the vehicle's own cell is not in the index
C13_Witness ==
    /\ last.op = "move_submarine_by_reports"
    /\ last.outcome = "FileNotFoundError"
    /\ last.sn \in Serials
    /\ occupied_positions # {}
    /\ PositionOf(last.sn) \notin occupied_positions
    /\ last.sn \notin Range(collided_submarines)

\* A record as the claim reads it: exactly two tokens, the second one a
\* non-negative integer
C14_ValidRecord(line) ==
    LET tok == split(line) IN
    /\ Len(tok) = 2
    /\ Len(tok[2]) > 0
    /\ \A k \in 1..Len(tok[2]) : tok[2][k] \in AsciiDigits

\* The vehicle after the valid records of `lines`, from record i on
RECURSIVE C14_ApplyValid(_, _, _)
C14_ApplyValid(sub, lines, i) ==
    IF i > Len(lines) THEN sub
    ELSE IF C14_ValidRecord(lines[i])
         THEN LET tok == split(lines[i]) IN
              C14_ApplyValid(move(sub, tok[1], int(tok[2])), lines, i + 1)
         ELSE C14_ApplyValid(sub, lines, i + 1)

\* C14: a move-by-reports call of a registered vehicle with a report returns,
\* and the vehicle's position and log are those obtained by applying only the
\* valid records, in report order: the other records are skipped and do not
\* stop the ingestion.
C14_InvalidRecordsSkipped ==
    [][\A sn \in {SN_A, SN_B, SN_C} :
            (last'.op = "move_submarine_by_reports" /\ last'.sn = sn
                /\ sn \in Serials /\ MovementReports[sn].exists) =>
                /\ last'.outcome = "return"
                /\ get_sub(sn)' = C14_ApplyValid(get_sub(sn), MovementReports[sn].lines, 1)]_vars

\* The lines of the sensor data of sn that hold a '0' and are not equal to an
\* earlier line: the first occurrences of the distinct faulty lines
C15_FirstFaulty(sn) ==
    LET lines == Sensordata.files[sn].lines IN
    {i \in 1..Len(lines) :
        /\ \E p \in 1..Len(lines[i]) : lines[i][p] = "0"
        /\ \A j \in 1..(i - 1) : lines[j] # lines[i]}

C16_LineOf(store, sn) ==
    LET starts(line) == Len(line) > Len(sn) /\ SubSeq(line, 1, Len(sn) + 1) = sn \o <<":">>
        found == {i \in 1..Len(store.lines) : starts(store.lines[i])}
    IN  IF store.exists /\ found # {}
        THEN CHOOSE i \in found : \A j \in found : i <= j
        ELSE 0

\* The secret value a store holds for sn: what follows "<sn>:" on that line,
\* without the line end
C16_SecretOf(store, sn) ==
    LET line == store.lines[C16_LineOf(store, sn)]
        rest == SubSeq(line, Len(sn) + 2, Len(line))
    IN  IF rest # <<>> /\ rest[Len(rest)] = "\n" THEN SubSeq(rest, 1, Len(rest) - 1) ELSE rest

\* The auth string is today's date + secret key + activation code of sn
\* (equality of the SHA-256 digests, the hash being injective)
C16_Matches(sn, auth_string) ==
    <<"sha256", auth_string>> =
        <<"sha256", today \o C16_SecretOf(Secrets.SecretKEY, sn)
                          \o C16_SecretOf(Secrets.ActivationCodes, sn)>>

C16_InBothStores(sn) ==
    /\ C16_LineOf(Secrets.SecretKEY, sn) # 0
    /\ C16_LineOf(Secrets.ActivationCodes, sn) # 0

C17_UnknownIdentifierNotFound ==
    (last.op = "activate_nuke"
        /\ \/ last.sn \notin Serials
           \/ /\ Secrets.SecretKEY.exists
              /\ Secrets.ActivationCodes.exists
              /\ ~C16_InBothStores(last.sn)) =>
        last.outcome = "LookupError"

C18_RankingOps ==
    {"get_closest_submarine", "get_furthest_submarine", "get_highest_submarine",
     "get_lowest_submarine"}

\* C18: each of the four ranking queries fails with ValueError when no
\* vehicle is registered, also after clear emptied a populated registry.
C18_EmptyFleetFails ==
    (last.op \in C18_RankingOps /\ Len(submarines) = 0) => last.outcome = "ValueError"

\* A ranking query failed on a registry that was cleared after two vehicles
\* had been moved
C18_Witness ==
    /\ last.op = "get_highest_submarine"
    /\ last.outcome = "ValueError"
    /\ submarines = <<>>
    /\ Cardinality(occupied_positions) >= 2

\* The place in the registry of the vehicle a ranking query returned
C19_Returned ==
    CHOOSE i \in 1..Len(submarines) :
        last.value = <<"|Submarine ", submarines[i].serial_number, " at ",
                       submarines[i].position, "|">>

C19_Dist(i) == submarines[i].position[1] ^ 2 + submarines[i].position[2] ^ 2

C19_Vertical(i) == submarines[i].position[1]

\* C19: with a vehicle registered, a ranking query returns a registered
\* vehicle: closest one of minimal vertical^2 + horizontal^2, furthest one of
\* maximal, lowest one of minimal vertical coordinate, highest one of maximal.
C19_RankingExtremes ==
    (last.op \in C18_RankingOps /\ Len(submarines) > 0) =>
        /\ last.outcome = "return"
        /\ \E i \in 1..Len(submarines) :
                last.value = <<"|Submarine ", submarines[i].serial_number, " at ",
                               submarines[i].position, "|">>
        /\ \A j \in 1..Len(submarines) :
                CASE last.op = "get_closest_submarine" -> C19_Dist(C19_Returned) <= C19_Dist(j)
                  [] last.op = "get_furthest_submarine" -> C19_Dist(C19_Returned) >= C19_Dist(j)
                  [] last.op = "get_lowest_submarine" ->
                        C19_Vertical(C19_Returned) <= C19_Vertical(j)
                  [] last.op = "get_highest_submarine" ->
                        C19_Vertical(C19_Returned) >= C19_Vertical(j)

\* The furthest of three vehicles is the lowest one, below the base, and not
\* the highest one
C19_Witness ==
    /\ last.op = "get_furthest_submarine"
    /\ last.outcome = "return"
    /\ Len(submarines) = 3
    /\ C19_Vertical(C19_Returned) < 0
    /\ \E j \in 1..3 : C19_Vertical(j) > 0 /\ C19_Dist(j) < C19_Dist(C19_Returned)

\* The vehicles that tie with the returned one on the key of the query
C20_Tied ==
    {j \in 1..Len(submarines) :
        IF last.op \in {"get_closest_submarine", "get_furthest_submarine"}
        THEN C19_Dist(j) = C19_Dist(C19_Returned)
        ELSE C19_Vertical(j) = C19_Vertical(C19_Returned)}

\* C20 as claimed: of the vehicles that tie on the extreme key, each of the
\* four queries returns the one registered earliest (the first of them in the
\* registry's insertion order).
C20_TiesEarliestRegistered ==
    (last.op \in C18_RankingOps /\ last.outcome = "return") =>
        \A j \in C20_Tied : C19_Returned <= j

\* C20 as amended: of the vehicles that tie on the extreme key, closest and
\* lowest return the first in the registry's insertion order, furthest and
\* highest the last.
C20_TiesByInsertionOrder ==
    (last.op \in C18_RankingOps /\ last.outcome = "return") =>
        \A j \in C20_Tied :
            IF last.op \in {"get_closest_submarine", "get_lowest_submarine"}
            THEN C19_Returned <= j
            ELSE C19_Returned >= j

\* Two vehicles away from the base tie as the closest, a third one is further:
\* the first of the two in insertion order is returned
C20_Witness ==
    /\ last.op = "get_closest_submarine"
    /\ last.outcome = "return"
    /\ Len(submarines) = 3
    /\ Cardinality(C20_Tied) = 2
    /\ C19_Dist(C19_Returned) > 0
    /\ C19_Returned = 2

\* C21: a move-by-reports call that returns makes one collision step on the
\* vehicle's final cell p: with p in the index the vehicle is appended once to
\* the collided list and the index stays, otherwise p is inserted and the
\* list stays; and no step of any operation takes a cell out of the index or
\* changes the collided list other than by appending.
C21_OneCollisionStep ==
    [][/\ \A s \in {SN_A, SN_B, SN_C} :
            MovedOkStep(s) =>
                LET p == PositionOf(s)' IN
                IF p \in occupied_positions
                THEN /\ collided_submarines' = Append(collided_submarines, s)
                     /\ occupied_positions' = occupied_positions
                ELSE /\ occupied_positions' = occupied_positions \cup {p}
                     /\ collided_submarines' = collided_submarines
       /\ occupied_positions \subseteq occupied_positions'
       /\ Len(collided_submarines') >= Len(collided_submarines)
       /\ SubSeq(collided_submarines', 1, Len(collided_submarines)) = collided_submarines]_vars

\* The vehicle moved last was appended to a collided list that held it already
C21_Witness ==
    /\ last.op = "move_submarine_by_reports"
    /\ last.outcome = "return"
    /\ Len(collided_submarines) >= 2
    /\ collided_submarines[Len(collided_submarines)] = last.sn
    /\ \E k \in 1..(Len(collided_submarines) - 1) : collided_submarines[k] = last.sn
    /\ PositionOf(last.sn) \in occupied_positions

\* Lookup, enumeration, fire, the ranking queries, movement-log retrieval,
\* sensor aggregation and authorize
C22_ReadOnlyOps ==
    {"lookup_submarine", "submarines", "order_torpedo", "get_closest_submarine",
     "get_furthest_submarine", "get_highest_submarine", "get_lowest_submarine",
     "get_submarine_movement_log", "count_sensor_errors", "activate_nuke"}

\* C22: lookup, enumeration, fire (blocked or clear), the four ranking
\* queries, movement-log retrieval, sensor aggregation and authorize leave
\* the registry, every entity's position and movement log, the index and the
\* collided list unchanged, whether they return or fail.
C22_ReadOnlyOpsChangeNothing ==
    [][last'.op \in C22_ReadOnlyOps =>
            /\ submarines' = submarines
            /\ occupied_positions' = occupied_positions
            /\ collided_submarines' = collided_submarines]_vars

\* A read-only operation has just returned on a fleet of two vehicles that
\* have moved and collided
C22_Witness ==
    /\ last.op \in C22_ReadOnlyOps
    /\ last.op = "get_submarine_movement_log"
    /\ last.outcome = "return"
    /\ last.value # <<>>
    /\ Len(submarines) = 2
    /\ collided_submarines # <<>>
    /\ get_sub(last.sn).movement_log = last.value

\* The cell a move of distance d in direction dir leads to from cell p; a
\* direction outside up, down, forward displaces nothing
C23_Displaced(p, dir, d) ==
    IF dir = <<"u", "p">> THEN <<p[1] + d, p[2]>>
    ELSE IF dir = <<"d", "o", "w", "n">> THEN <<p[1] - d, p[2]>>
    ELSE IF dir = <<"f", "o", "r", "w", "a", "r", "d">> THEN <<p[1], p[2] + d>>
    ELSE p

\* C23: in every reachable state each vehicle's movement log is a chain: the
\* new position of a record is its old position displaced by its direction
\* and distance, the old position of a record is the new position of the
\* record before it, and the new position of the newest record is the
\* vehicle's position.
C23_LogIsAuditChain ==
    \A i \in 1..Len(submarines) :
        LET log == submarines[i].movement_log IN
        /\ \A k \in 1..Len(log) : log[k][4] = C23_Displaced(log[k][1], log[k][2], log[k][3])
        /\ \A k \in 2..Len(log) : log[k][1] = log[k - 1][4]
        /\ log # <<>> => log[Len(log)][4] = submarines[i].position

\* A full log whose oldest records were evicted, of a vehicle that moved in
\* two directions
C23_Witness ==
    \E i \in 1..Len(submarines) :
        LET log == submarines[i].movement_log IN
        /\ Len(log) = 50
        /\ Len(logged[submarines[i].serial_number]) > 50
        /\ log[1][1] # <<0, 0>>
        /\ \E k \in 1..50 : log[k][2] = Up
        /\ \E k \in 1..50 : log[k][2] = Forward
        /\ log[50][4] = submarines[i].position

\* C24: a vehicle is appended to the collided list only when another vehicle
\* that is registered stands on the cell it ended on: not because of a cell
\* it indexed itself in an earlier call, nor because of a cell indexed by a
\* vehicle that was cleared or overwritten since.
C24_CollidedOnlyWithAnother ==
    [][\A s \in {SN_A, SN_B, SN_C} :
            (MovedOkStep(s) /\ collided_submarines' # collided_submarines) =>
                \E t \in Serials \ {s} : PositionOf(t) = PositionOf(s)']_vars

====
